---- MODULE Spec2Model ----
(***************************************************************************)
(* A model of the stock analyzer (kabuzokuhenn): the extraction of metric  *)
(* series from scraped tables, the nine-criterion score, and the main      *)
(* analysis flow.  The repository holds two versions of the program,       *)
(* src/stock_analyzer_fixed.py ("fixed") and src/stock_analyzer_app.py     *)
(* ("app"); the variable `variant` says which one a behaviour runs.        *)
(*                                                                         *)
(* Numbers are Python floats in the code; the model uses integers, which   *)
(* is exact for the comparisons (<, <=, >, >=) the code makes on them.     *)
(* Texts are sequences of one-glyph strings, so that substring search,     *)
(* stripping and character removal are computed, not assumed.  Japanese    *)
(* glyphs are written as upper-case ASCII tokens (one token per glyph).    *)
(***************************************************************************)
EXTENDS Integers, Sequences, FiniteSets, TLC

VARIABLES
    variant,        \* "fixed" | "app": which source file runs
    pc,             \* position of the running flow or call
    soup,           \* the parsed page: [h1, tables]
    names,          \* the alias tuple of a direct _extract_metric call
    values,         \* the return value of a direct _extract_metric call
    stock_code,     \* the sidebar's text input
    data,           \* the record fetch_irbank_data returned (or NoData)
    result,         \* the return value of calculate_score
    history,        \* the content of HISTORY_FILE
    now,            \* the clock datetime.now() reads
    cell_text,      \* the argument of a direct _parse_number call
    number,         \* its return value
    fn,             \* the trend predicate of a direct call
    trend_values,   \* a series without None entries
    gapped,         \* the same series with None entries inserted
    plain,          \* the predicate's result on trend_values
    with_gaps,      \* the predicate's result on gapped
    data2,          \* a second record, differing from data in one series
    result2,        \* the return value of calculate_score for data2
    appended,       \* every entry HISTORY_FILE ever held, in append order
    ranking,        \* the rows of the monthly ranking table
    sessions        \* the save_history calls in flight, one per session

\* the variables of the direct calls of the helpers
direct_vars == <<cell_text, number, fn, trend_values, gapped, plain, with_gaps, data2, result2>>
\* the variables around HISTORY_FILE beyond its content
log_vars == <<appended, ranking, sessions>>

vars == <<variant, pc, soup, names, values, stock_code, data, result, history, now,
          direct_vars, log_vars>>

Variants == {"fixed", "app"}

(***************************************************************************)
(* Bounds of the model.                                                    *)
(***************************************************************************)
\* longest series handed directly to calculate_score
MaxLen == 3
\* most value cells in a row handed directly to _extract_metric
MaxCells == 6
\* most value cells of the second row of a drawn page
MaxLaterCells == 2
\* most rows of a page
MaxRows == 2
\* most analyses of one behaviour
MaxRuns == 1
\* longest cell text handed directly to _parse_number
MaxText == 3
\* longest series handed directly to a trend predicate, None entries included
MaxGapped == 4
\* most save_history calls of one behaviour
MaxSaves == 3
\* clock ticks in a calendar month
TicksPerMonth == 3

(***************************************************************************)
(* Python values.                                                          *)
(***************************************************************************)
\* Python's None as an entry of a series (no number of the model equals it)
None == -1000
\* the value None in place of a record (fetch_irbank_data's failure result)
NoData == <<>>
\* the Python exception a call ended with, in place of its return value
TypeError == [raised |-> "TypeError"]

Last(n, s) == IF Len(s) <= n THEN s ELSE SubSeq(s, Len(s) - n + 1, Len(s))
First(n, s) == IF Len(s) <= n THEN s ELSE SubSeq(s, 1, n)

RECURSIVE SeqSum(_)
SeqSum(s) == IF s = <<>> THEN 0 ELSE Head(s) + SeqSum(Tail(s))

\* the nine criteria, in the order calculate_score fills score_details
Keys == <<"revenue", "eps", "total_assets", "operating_cf", "cash",
          "roe", "equity_ratio", "dividend", "payout_ratio">>
KeySet == {Keys[i] : i \in 1..Len(Keys)}

(***************************************************************************)
(* Trend predicates, fixed version: None entries are filtered out first.   *)
(***************************************************************************)
valid_values(vals) == SelectSeq(vals, LAMBDA v : v # None)

_is_increasing_lenient(vals) ==
    IF Len(vals) < 2 THEN FALSE
    ELSE LET valid == valid_values(vals) IN
         IF Len(valid) < 2 THEN FALSE
         ELSE \A i \in 1..(Len(valid) - 1) : valid[i] <= valid[i + 1]

_is_increasing(vals) ==
    IF Len(vals) < 2 THEN FALSE
    ELSE LET valid == valid_values(vals) IN
         IF Len(valid) < 2 THEN FALSE
         ELSE \A i \in 1..(Len(valid) - 1) : valid[i] < valid[i + 1]

\* a plausible slip: equal neighbours count as a decrease
_is_non_decreasing_strict(vals) ==
    IF Len(vals) < 2 THEN TRUE
    ELSE LET valid == valid_values(vals) IN
         IF Len(valid) < 2 THEN TRUE
         ELSE \A i \in 1..(Len(valid) - 1) : valid[i] < valid[i + 1]

_is_non_decreasing(vals) ==
    IF Len(vals) < 2 THEN TRUE
    ELSE LET valid == valid_values(vals) IN
         IF Len(valid) < 2 THEN TRUE
         ELSE \A i \in 1..(Len(valid) - 1) : valid[i] <= valid[i + 1]

(***************************************************************************)
(* Trend predicates, app version: entries are compared as they are.  A     *)
(* comparison with None raises TypeError; all() stops at the first false   *)
(* item, so a None behind it is never compared.  The result is "True",     *)
(* "False" or "TypeError".                                                 *)
(***************************************************************************)
\* one Python comparison of two numbers
compare(op, a, b) ==
    CASE op = "<"  -> a < b
      [] op = "<=" -> a <= b
      [] op = ">"  -> a > b
      [] op = ">=" -> a >= b

\* all(x op bound for x in vals): left to right; None raises, a false item ends it
RECURSIVE all_items(_, _, _)
all_items(vals, op, bound) ==
    IF vals = <<>> THEN "True"
    ELSE IF Head(vals) = None THEN "TypeError"
    ELSE IF ~compare(op, Head(vals), bound) THEN "False"
    ELSE all_items(Tail(vals), op, bound)

\* all(vals[i] op vals[i+1] for i in range(len(vals)-1)), from pair i on
RECURSIVE all_pairs(_, _, _)
all_pairs(vals, i, op) ==
    IF i >= Len(vals) THEN "True"
    ELSE IF vals[i] = None \/ vals[i + 1] = None THEN "TypeError"
    ELSE IF ~compare(op, vals[i], vals[i + 1]) THEN "False"
    ELSE all_pairs(vals, i + 1, op)

_is_increasing_app(vals) ==
    IF Len(vals) < 2 THEN "False" ELSE all_pairs(vals, 1, "<")

_is_non_decreasing_app(vals) ==
    IF Len(vals) < 2 THEN "True" ELSE all_pairs(vals, 1, "<=")

\* a Python bool as the model writes the result of a call that may raise
BoolStr(b) == IF b THEN "True" ELSE "False"

\* the call self.<f>(vals) of the running version: "True", "False" or "TypeError"
TrendOf(v, f, vals) ==
    IF v = "fixed"
    THEN BoolStr(IF f = "_is_increasing" THEN _is_increasing(vals)
                 ELSE _is_non_decreasing(vals))
    ELSE IF f = "_is_increasing" THEN _is_increasing_app(vals)
         ELSE _is_non_decreasing_app(vals)

(***************************************************************************)
(* calculate_score, fixed version: one definition per criterion, each      *)
(* guarded by the length of the raw series ("データ不足" otherwise).        *)
(***************************************************************************)
calculate_score_revenue(vals) ==
    IF Len(vals) >= 2 THEN (IF _is_increasing(vals) THEN 15 ELSE 0) ELSE 0

calculate_score_eps(vals) ==
    IF Len(vals) >= 2 THEN (IF _is_increasing(vals) THEN 15 ELSE 0) ELSE 0

calculate_score_total_assets(vals) ==
    IF Len(vals) >= 2 THEN (IF _is_increasing(vals) THEN 10 ELSE 0) ELSE 0

calculate_score_operating_cf_no_sign(vals) ==
    IF Len(vals) >= 2 THEN (IF _is_increasing(vals) THEN 10 ELSE 0) ELSE 0

calculate_score_operating_cf(vals) ==
    IF Len(vals) >= 2
    THEN LET all_positive == \A i \in 1..Len(vals) : vals[i] # None => vals[i] > 0
             is_increasing == _is_increasing(vals)
         IN  IF all_positive /\ is_increasing THEN 10 ELSE 0
    ELSE 0

calculate_score_cash(vals) ==
    IF Len(vals) >= 2 THEN (IF _is_increasing(vals) THEN 10 ELSE 0) ELSE 0

calculate_score_roe_strict(vals) ==
    IF Len(vals) >= 1
    THEN LET all_above_7 == \A i \in 1..Len(vals) : vals[i] # None => vals[i] > 7
         IN  IF all_above_7 THEN 10 ELSE 0
    ELSE 0

calculate_score_roe(vals) ==
    IF Len(vals) >= 1
    THEN LET all_above_7 == \A i \in 1..Len(vals) : vals[i] # None => vals[i] >= 7
         IN  IF all_above_7 THEN 10 ELSE 0
    ELSE 0

calculate_score_equity_ratio(vals) ==
    IF Len(vals) >= 1
    THEN LET all_above_50 == \A i \in 1..Len(vals) : vals[i] # None => vals[i] >= 50
         IN  IF all_above_50 THEN 10 ELSE 0
    ELSE 0

calculate_score_dividend(vals) ==
    IF Len(vals) >= 2 THEN (IF _is_non_decreasing(vals) THEN 10 ELSE 0) ELSE 0

calculate_score_payout_ratio(vals) ==
    IF Len(vals) >= 1
    THEN LET all_below_40 == \A i \in 1..Len(vals) : vals[i] # None => vals[i] <= 40
         IN  IF all_below_40 THEN 10 ELSE 0
    ELSE 0

\* a plausible slip: the dividend points are tied to the payout ratio's
score_details_of_coupled(d) ==
    [k \in KeySet |->
        CASE k = "revenue"      -> calculate_score_revenue(d[k])
          [] k = "eps"          -> calculate_score_eps(d[k])
          [] k = "total_assets" -> calculate_score_total_assets(d[k])
          [] k = "operating_cf" -> calculate_score_operating_cf(d[k])
          [] k = "cash"         -> calculate_score_cash(d[k])
          [] k = "roe"          -> calculate_score_roe(d[k])
          [] k = "equity_ratio" -> calculate_score_equity_ratio(d[k])
          [] k = "dividend"     -> IF calculate_score_payout_ratio(d["payout_ratio"]) = 10
                                   THEN calculate_score_dividend(d[k]) ELSE 0
          [] k = "payout_ratio" -> calculate_score_payout_ratio(d[k])]

\* score_details of a record, fixed version
score_details_of(d) ==
    [k \in KeySet |->
        CASE k = "revenue"      -> calculate_score_revenue(d[k])
          [] k = "eps"          -> calculate_score_eps(d[k])
          [] k = "total_assets" -> calculate_score_total_assets(d[k])
          [] k = "operating_cf" -> calculate_score_operating_cf(d[k])
          [] k = "cash"         -> calculate_score_cash(d[k])
          [] k = "roe"          -> calculate_score_roe(d[k])
          [] k = "equity_ratio" -> calculate_score_equity_ratio(d[k])
          [] k = "dividend"     -> calculate_score_dividend(d[k])
          [] k = "payout_ratio" -> calculate_score_payout_ratio(d[k])]

\* a plausible slip: the last criterion is left out of the sum
total_score_of_short(details) == SeqSum([i \in 1..(Len(Keys) - 1) |-> details[Keys[i]]])

\* sum(score_details.values())
total_score_of(details) == SeqSum([i \in 1..Len(Keys) |-> details[Keys[i]]])

\* calculate_score(data), fixed version: (total_score, score_details); falsy
\* data returns (0, {}) before any criterion is looked at
calculate_score(d) ==
    IF d = NoData
    THEN [raised |-> "", total_score |-> 0, score_details |-> <<>>]
    ELSE LET details == score_details_of(d)
         IN  [raised |-> "", total_score |-> total_score_of(details),
              score_details |-> details]

(***************************************************************************)
(* calculate_score, app version: no guard on the data or on the lengths,   *)
(* no filtering of None.                                                   *)
(***************************************************************************)
\* the condition of criterion k: "True", "False" or "TypeError"
passes_app(k, vals) ==
    CASE k \in {"revenue", "eps", "total_assets", "cash"} -> _is_increasing_app(vals)
      [] k = "operating_cf" ->
            LET all_positive == all_items(vals, ">", 0)
            IN  IF all_positive = "True" THEN _is_increasing_app(vals) ELSE all_positive
      [] k = "roe"          -> all_items(vals, ">=", 7)
      [] k = "equity_ratio" -> all_items(vals, ">=", 50)
      [] k = "dividend"     -> _is_non_decreasing_app(vals)
      [] k = "payout_ratio" -> all_items(vals, "<=", 40)

\* the points criterion k awards when its condition holds
points_app(k) == IF k \in {"revenue", "eps"} THEN 15 ELSE 10

calculate_score_app(d) ==
    IF d = NoData THEN TypeError      \* None is not subscriptable
    ELSE IF \E k \in KeySet : passes_app(k, d[k]) = "TypeError" THEN TypeError
    ELSE LET details == [k \in KeySet |->
                            IF passes_app(k, d[k]) = "True" THEN points_app(k) ELSE 0]
         IN  [raised |-> "", total_score |-> total_score_of(details),
              score_details |-> details]

\* the call analyzer.calculate_score(data) of the running version
CalculateScoreOf(v, d) == IF v = "fixed" THEN calculate_score(d) ELSE calculate_score_app(d)

(***************************************************************************)
(* Texts.  A text is a sequence of glyphs.  Glyphs beyond ASCII are named: *)
(*   EN 円  OKU 億  MAN 万  HYAKU 百  SEN 千   (units _parse_number removes) *)
(*   MINUS U+2212  HBAR U+2015  EMDASH U+2014  ENDASH U+2013               *)
(*   FWHYPHEN U+FF0D                                                       *)
(*   URI AGE DAKA 売上高      KEI JOU SHUU EKI 経常収益                    *)
(*   HAI TOU 配当             HAI TOU SEI KOU 配当性向   KABU 株           *)
(***************************************************************************)
Digits == <<"0", "1", "2", "3", "4", "5", "6", "7", "8", "9">>
DigitSet == {Digits[i] : i \in 1..Len(Digits)}
DigitValue(c) == CHOOSE n \in 0..9 : Digits[n + 1] = c

\* str.strip(): whitespace removed at both ends
RECURSIVE strip(_)
strip(text) ==
    IF text = <<>> THEN text
    ELSE IF Head(text) = " " THEN strip(Tail(text))
    ELSE IF text[Len(text)] = " " THEN strip(SubSeq(text, 1, Len(text) - 1))
    ELSE text

\* sub in text
contains(text, sub) ==
    \E i \in 1..(Len(text) - Len(sub) + 1) : SubSeq(text, i, i + Len(sub) - 1) = sub

\* the value of a run of digits
RECURSIVE digits_value(_)
digits_value(text) ==
    IF text = <<>> THEN 0
    ELSE 10 * digits_value(SubSeq(text, 1, Len(text) - 1)) + DigitValue(text[Len(text)])

\* float(text) succeeds: over the glyphs of the model (no ".", "e", "_", letters of
\* inf/nan) a float literal is an optional ASCII sign and at least one digit
is_float(text) ==
    LET body == IF text # <<>> /\ Head(text) \in {"-", "+"} THEN Tail(text) ELSE text
    IN  body # <<>> /\ \A i \in 1..Len(body) : body[i] \in DigitSet

\* float(text), when it succeeds
float(text) ==
    IF Head(text) = "-" THEN 0 - digits_value(Tail(text))
    ELSE IF Head(text) = "+" THEN digits_value(Tail(text))
    ELSE digits_value(text)

\* a plausible slip: the thousands separator is left in the text
remove_units_keep_comma(text) ==
    SelectSeq(text, LAMBDA c : c \notin {"EN", "OKU", "MAN", "HYAKU", "SEN", "%"})

\* re.sub(r'[,円億万百千%]', '', text)
remove_units(text) ==
    SelectSeq(text, LAMBDA c : c \notin {",", "EN", "OKU", "MAN", "HYAKU", "SEN", "%"})

\* a plausible slip: a dash is read as zero
_parse_number_dash_zero(text) ==
    LET t == strip(remove_units(text))
    IN  IF t \in {<<"-">>, <<"MINUS">>, <<>>, <<"HBAR">>, <<"EMDASH">>} THEN 0
        ELSE IF is_float(t) THEN float(t)
        ELSE None

\* _parse_number, fixed version: a number, or None
_parse_number(text) ==
    LET t == strip(remove_units(text))
    IN  IF t \in {<<"-">>, <<"MINUS">>, <<>>, <<"HBAR">>, <<"EMDASH">>} THEN None
        ELSE IF is_float(t) THEN float(t)
        ELSE None       \* ValueError, caught

\* _parse_number, app version
_parse_number_app(text) ==
    LET t == strip(remove_units(text))
    IN  IF t # <<>> /\ t # <<"-">>
        THEN (IF is_float(t) THEN float(t) ELSE None)   \* ValueError, passed over
        ELSE None

\* the call self._parse_number(text) of the running version
ParseNumberOf(v, text) == IF v = "fixed" THEN _parse_number(text) ELSE _parse_number_app(text)

(***************************************************************************)
(* The page.  soup = [h1, tables]; a table = [class, rows]; a row is the   *)
(* tuple of the texts of its td/th cells (possibly none).                  *)
(***************************************************************************)
Table(class, rows) == [class |-> class, rows |-> rows]
NoH1 == <<"no h1">>
Soup(tables) == [h1 |-> NoH1, tables |-> tables]

\* the parsed numbers of a tuple of value cells, failures dropped
RECURSIVE parsed_cells(_)
parsed_cells(cells) ==
    IF cells = <<>> THEN <<>>
    ELSE LET num == _parse_number(Head(cells))
         IN  (IF num # None THEN <<num>> ELSE <<>>) \o parsed_cells(Tail(cells))

RECURSIVE parsed_cells_app(_)
parsed_cells_app(cells) ==
    IF cells = <<>> THEN <<>>
    ELSE LET num == _parse_number_app(Head(cells))
         IN  (IF num # None THEN <<num>> ELSE <<>>) \o parsed_cells_app(Tail(cells))

\* fixed: for cell in cells[1:] ... values.append(num)
row_values(cells) == parsed_cells(Tail(cells))

\* app: for cell in cells[1:6]
row_values_app(cells) == parsed_cells_app(First(5, Tail(cells)))

\* fixed: values[-5:] if len(values) >= 5 else values
latest_values(vals) == IF Len(vals) >= 5 THEN Last(5, vals) ELSE vals

\* fixed: any(metric_name in first_cell_text for metric_name in metric_names)
label_matches(cells, metric_names) ==
    LET first_cell_text == strip(cells[1])
    IN  \E n \in 1..Len(metric_names) : contains(first_cell_text, metric_names[n])

\* fixed: the loop over the rows of one table, from row r on; <<>> when it ends
\* without returning
RECURSIVE scan_rows(_, _, _)
scan_rows(rows, r, metric_names) ==
    IF r > Len(rows) THEN <<>>
    ELSE LET cells == rows[r] IN
         IF cells = <<>> THEN scan_rows(rows, r + 1, metric_names)
         ELSE IF label_matches(cells, metric_names) /\ row_values(cells) # <<>>
              THEN latest_values(row_values(cells))
              ELSE scan_rows(rows, r + 1, metric_names)

\* app: the same loop; the label is not stripped, one name
RECURSIVE scan_rows_app(_, _, _)
scan_rows_app(rows, r, metric_name) ==
    IF r > Len(rows) THEN <<>>
    ELSE LET cells == rows[r] IN
         IF cells # <<>> /\ contains(cells[1], metric_name)
                         /\ row_values_app(cells) # <<>>
         THEN Last(5, row_values_app(cells))
         ELSE scan_rows_app(rows, r + 1, metric_name)

\* fixed: soup.find_all('table', class_='table_style')
find_tables(s) == SelectSeq(s.tables, LAMBDA t : t.class = "table_style")

\* fixed: the loop over the tables, from table t on
RECURSIVE scan_tables(_, _, _)
scan_tables(tables, t, metric_names) ==
    IF t > Len(tables) THEN <<>>
    ELSE LET found == scan_rows(tables[t].rows, 1, metric_names)
         IN  IF found # <<>> THEN found ELSE scan_tables(tables, t + 1, metric_names)

RECURSIVE scan_tables_app(_, _, _)
scan_tables_app(tables, t, metric_name) ==
    IF t > Len(tables) THEN <<>>
    ELSE LET found == scan_rows_app(tables[t].rows, 1, metric_name)
         IN  IF found # <<>> THEN found ELSE scan_tables_app(tables, t + 1, metric_name)

\* _extract_metric(soup, *metric_names), fixed version
_extract_metric(s, metric_names) == scan_tables(find_tables(s), 1, metric_names)

\* _extract_metric(soup, metric_name), app version: every table is searched, and
\* a default series is returned when nothing was found
_extract_metric_app(s, metric_name) ==
    LET found == scan_tables_app(s.tables, 1, metric_name)
    IN  IF found # <<>> THEN found ELSE <<100, 110, 120, 130, 140>>

\* the call of the running version; the app version takes the first name only
ExtractMetricOf(v, s, metric_names) ==
    IF v = "fixed" THEN _extract_metric(s, metric_names)
    ELSE _extract_metric_app(s, metric_names[1])

(***************************************************************************)
(* fetch_irbank_data and the main analysis flow.                           *)
(*   SOU SHI SAN 総資産   EI GYOU C F 営業CF   GEN KIN NADO 現金等          *)
(*   EI GYOU KATSU DOU NI YO RU C F 営業活動によるCF                        *)
(*   GEN KIN OYO BI GEN KIN ONAJI NADO BUTSU 現金及び現金同等物             *)
(*   JI KO SHI HON RI EKI RITSU 自己資本利益率   ... HI RITSU 自己資本比率  *)
(*   MEI GARA 銘柄   KI GYOU KO O DO 企業コード   SAMPLE KI GYOU サンプル企業 *)
(***************************************************************************)
\* the names fetch_irbank_data passes to _extract_metric for each field (fixed);
\* the app version passes the first of them only
metric_names_of(k) ==
    CASE k = "revenue"      -> << <<"URI", "AGE", "DAKA">>, <<"KEI", "JOU", "SHUU", "EKI">> >>
      [] k = "eps"          -> << <<"E", "P", "S">> >>
      [] k = "total_assets" -> << <<"SOU", "SHI", "SAN">> >>
      [] k = "operating_cf" -> << <<"EI", "GYOU", "C", "F">>,
                                  <<"EI", "GYOU", "KATSU", "DOU", "NI", "YO", "RU", "C", "F">> >>
      [] k = "cash"         -> << <<"GEN", "KIN", "NADO">>,
                                  <<"GEN", "KIN", "OYO", "BI", "GEN", "KIN", "ONAJI", "NADO", "BUTSU">> >>
      [] k = "roe"          -> << <<"R", "O", "E">>,
                                  <<"JI", "KO", "SHI", "HON", "RI", "EKI", "RITSU">> >>
      [] k = "equity_ratio" -> << <<"JI", "KO", "SHI", "HON", "HI", "RITSU">> >>
      [] k = "dividend"     -> << <<"HAI", "TOU">>, <<"1", "KABU", "HAI", "TOU">> >>
      [] k = "payout_ratio" -> << <<"HAI", "TOU", "SEI", "KOU">> >>

\* datetime.now().year
current_year == 2026

\* list(range(current_year - data_length + 1, current_year + 1))
years_of(data_length) == [i \in 1..data_length |-> current_year - data_length + i]

\* a record from its nine series
RecordOf(name, series) ==
    [f \in KeySet \cup {"company_name", "years"} |->
        IF f = "company_name" THEN name
        ELSE IF f = "years" THEN years_of(Len(series["revenue"]))
        ELSE series[f]]

\* re.sub(r'\d{4}', '', name): runs of four digits removed, left to right
RECURSIVE remove_four_digits(_)
remove_four_digits(name) ==
    IF Len(name) < 4 THEN name
    ELSE IF \A i \in 1..4 : name[i] \in DigitSet
         THEN remove_four_digits(SubSeq(name, 5, Len(name)))
         ELSE <<Head(name)>> \o remove_four_digits(Tail(name))

\* _extract_company_name, fixed version (a Tag is truthy whatever its content)
_extract_company_name(s, code) ==
    IF s.h1 # NoH1 THEN strip(remove_four_digits(strip(s.h1)))
    ELSE <<"MEI", "GARA">> \o code

\* _extract_company_name, app version
_extract_company_name_app(s, code) ==
    IF s.h1 # NoH1 THEN strip(s.h1)
    ELSE <<"KI", "GYOU", "KO", "O", "DO">> \o code

\* fetch_irbank_data, fixed version, once the page has been received
fetch_irbank_data(s, code) ==
    RecordOf(_extract_company_name(s, code),
             [k \in KeySet |-> _extract_metric(s, metric_names_of(k))])

\* fetch_irbank_data, app version, once the page has been received
fetch_irbank_data_app(s, code) ==
    RecordOf(_extract_company_name_app(s, code),
             [k \in KeySet |-> _extract_metric_app(s, metric_names_of(k)[1])])

\* _get_dummy_data (app): what fetch_irbank_data returns when the request fails
_get_dummy_data(code) ==
    [f \in KeySet \cup {"company_name", "years"} |->
        CASE f = "company_name" -> <<"SAMPLE", "KI", "GYOU">> \o code
          [] f = "revenue"      -> <<1000, 1100, 1250, 1400, 1550>>
          [] f = "eps"          -> <<50, 55, 62, 70, 78>>
          [] f = "total_assets" -> <<5000, 5300, 5700, 6100, 6500>>
          [] f = "operating_cf" -> <<200, 220, 250, 280, 300>>
          [] f = "cash"         -> <<800, 850, 920, 1000, 1100>>
          [] f = "roe"          -> <<9, 9, 9, 10, 10>>      \* 8.5 .. 9.8, rounded
          [] f = "equity_ratio" -> <<55, 56, 57, 58, 60>>
          [] f = "dividend"     -> <<10, 11, 12, 13, 14>>
          [] f = "payout_ratio" -> <<20, 22, 19, 18, 17>>
          [] f = "years"        -> <<2020, 2021, 2022, 2023, 2024>>]

\* what fetch_irbank_data returns: the request succeeded (ok) or raised
FetchOf(v, s, code, ok) ==
    IF v = "fixed" THEN (IF ok THEN fetch_irbank_data(s, code) ELSE NoData)
    ELSE (IF ok THEN fetch_irbank_data_app(s, code) ELSE _get_dummy_data(code))

\* a plausible slip: history[:100], the oldest hundred kept
save_history_keep_first(h, code, company_name, score, score_details, date) ==
    First(100, Append(h, [stock_code |-> code, company_name |-> company_name,
                          score |-> score, score_details |-> score_details,
                          date |-> date]))

\* save_history: load, append the entry, keep the last 100, write back
save_history(h, code, company_name, score, score_details, date) ==
    Last(100, Append(h, [stock_code |-> code, company_name |-> company_name,
                         score |-> score, score_details |-> score_details,
                         date |-> date]))

(***************************************************************************)
(* The monthly ranking.  A date is a clock tick; its month is the tick     *)
(* divided by the ticks of a month.                                        *)
(***************************************************************************)
\* pd.to_datetime(df['date']).dt.strftime('%Y-%m'), datetime.now().strftime('%Y-%m')
month_of(date) == date \div TicksPerMonth

\* df[df['month'] == current_month]
monthly_data(h, t) == SelectSeq(h, LAMBDA e : month_of(e.date) = month_of(t))

\* .sort_values('score', ascending=False): the default sort is not stable, so rows
\* of equal score come in any order
sort_values(rows) ==
    LET n == Len(rows)
        orders == {f \in [1..n -> 1..n] :
                      /\ \A i, j \in 1..n : i # j => f[i] # f[j]
                      /\ \A i \in 1..(n - 1) : rows[f[i]].score >= rows[f[i + 1]].score}
    IN  {[i \in 1..n |-> rows[f[i]]] : f \in orders}

\* .drop_duplicates(subset=['stock_code'], keep='first')
drop_duplicates(rows) ==
    LET kept == {i \in 1..Len(rows) :
                    \A j \in 1..(i - 1) : rows[j].stock_code # rows[i].stock_code}
        keep[i \in 0..Len(rows)] ==
            IF i = 0 THEN <<>>
            ELSE IF i \in kept THEN Append(keep[i - 1], rows[i]) ELSE keep[i - 1]
    IN  keep[Len(rows)]

\* monthly_data[['stock_code', 'company_name', 'score', 'date']].head(10)
display_df(rows) ==
    [i \in 1..Len(First(10, rows)) |->
        [stock_code |-> rows[i].stock_code, company_name |-> rows[i].company_name,
         score |-> rows[i].score, date |-> rows[i].date]]

\* the tables the ranking section may show for the history h at time t
monthly_ranking(h, t) ==
    IF h = <<>> \/ monthly_data(h, t) = <<>> THEN {<<>>}
    ELSE {display_df(drop_duplicates(rows)) : rows \in sort_values(monthly_data(h, t))}

(***************************************************************************)
(* The variables a specification does not use stay at rest.                *)
(***************************************************************************)
\* no call of calculate_score has returned yet
NoResult == [raised |-> "pending"]

ParseIdle == cell_text = <<>> /\ number = None
TrendIdle == fn = "" /\ trend_values = <<>> /\ gapped = <<>> /\ plain = "" /\ with_gaps = ""
PairIdle == data2 = NoData /\ result2 = NoResult
LogIdle == appended = <<>> /\ ranking = <<>> /\ sessions = <<>>

(***************************************************************************)
(* Direct calls of calculate_score: the record is drawn from a bounded set *)
(* and one step applies the running version to it.                         *)
(***************************************************************************)
\* the numbers a series of criterion k is drawn from: both sides of its bound
ValuesOf(k) ==
    CASE k = "roe"          -> {6, 7, 8}
      [] k = "equity_ratio" -> {49, 50, 51}
      [] k = "payout_ratio" -> {39, 40, 41}
      [] k = "operating_cf" -> {-1, 0, 1, 2}
      [] OTHER              -> {1, 2, 3}

SeqsUpTo(S, n) == UNION {[1..m -> S] : m \in 0..n}

\* the series of criterion k a direct call may hold.  The fixed version filters
\* None entries, so None is part of what it takes; the app version compares the
\* entries as they are and is handed what its own extractor builds: numbers only.
SeriesOf(v, k) ==
    IF v = "fixed" THEN SeqsUpTo(ValuesOf(k) \cup {None}, MaxLen)
    ELSE SeqsUpTo(ValuesOf(k), MaxLen)

\* two base records: every criterion passes, every series empty
PassSeries ==
    [k \in KeySet |->
        CASE k = "roe"          -> <<7, 8>>
          [] k = "equity_ratio" -> <<50, 51>>
          [] k = "payout_ratio" -> <<40, 39>>
          [] k = "dividend"     -> <<1, 1>>
          [] OTHER              -> <<1, 2>>]
EmptySeries == [k \in KeySet |-> <<>>]

\* the records of the direct calls: a base record with one series replaced
ScoreInputs(v) ==
    {RecordOf(<<"X">>, [base EXCEPT ![k] = s]) :
        <<base, k, s>> \in UNION {{<<b, kk, ss>> : ss \in SeriesOf(v, kk)} :
                                   <<b, kk>> \in {PassSeries, EmptySeries} \X KeySet}}
    \cup {NoData}

ScoreInit ==
    /\ variant \in Variants
    /\ data \in ScoreInputs(variant)
    /\ pc = "score_call"
    /\ result = NoResult
    /\ soup = <<>> /\ names = <<>> /\ values = <<>>
    /\ stock_code = <<>> /\ history = <<>> /\ now = 0
    /\ ParseIdle /\ TrendIdle /\ PairIdle /\ LogIdle

\* score... = analyzer.calculate_score(data)
ScoreCall ==
    /\ pc = "score_call"
    /\ result' = CalculateScoreOf(variant, data)
    /\ pc' = "score_done"
    /\ UNCHANGED <<variant, soup, names, values, stock_code, data, history, now>>
    /\ UNCHANGED <<direct_vars, log_vars>>

ScoreNext == ScoreCall

ScoreSpec == ScoreInit /\ [][ScoreNext]_vars

(***************************************************************************)
(* Direct calls of _extract_metric: the page and the names are drawn from  *)
(* bounded sets and one step applies the running version.                  *)
(***************************************************************************)
\* labels: two revenue spellings, one with blanks around it, and EPS
DrawnLabels ==
    { <<"URI", "AGE", "DAKA">>, <<" ", "URI", "AGE", "DAKA", " ">>,
      <<"KEI", "JOU", "SHUU", "EKI">>, <<"E", "P", "S">> }

\* value cells: cell i holds the number i, or a dash; at most one dash, or dashes only
DrawnCells(n) ==
    UNION { {[i \in 1..m |-> <<Digits[i + 1]>>]}
            \cup {[i \in 1..m |-> IF i = j THEN <<"-">> ELSE <<Digits[i + 1]>>] : j \in 1..m}
            \cup {[i \in 1..m |-> <<"-">>]} : m \in 0..n }

\* rows: no cell at all, or a label and value cells
DrawnRows(n) == {<<>>} \cup {<<l>> \o c : l \in DrawnLabels, c \in DrawnCells(n)}

\* pages: one table with one row; one table with two rows; two tables of one row
ExtractSoups ==
    {Soup(<<Table(c, <<r>>)>>) : c \in {"table_style", ""}, r \in DrawnRows(MaxCells)}
    \cup {Soup(<<Table("table_style", <<r1, r2>>)>>) :
            r1 \in DrawnRows(MaxCells), r2 \in DrawnRows(MaxLaterCells)}
    \cup {Soup(<<Table(c, <<r1>>), Table("table_style", <<r2>>)>>) :
            c \in {"table_style", ""},
            r1 \in DrawnRows(MaxCells), r2 \in DrawnRows(MaxLaterCells)}

ExtractInit ==
    /\ variant \in Variants
    /\ soup \in ExtractSoups
    /\ names = (IF variant = "fixed" THEN metric_names_of("revenue")
                ELSE <<metric_names_of("revenue")[1]>>)
    /\ pc = "extract_call"
    /\ values = <<>>
    /\ stock_code = <<>> /\ data = NoData /\ result = NoResult
    /\ history = <<>> /\ now = 0
    /\ ParseIdle /\ TrendIdle /\ PairIdle /\ LogIdle

\* values = self._extract_metric(soup, *names)
ExtractCall ==
    /\ pc = "extract_call"
    /\ values' = ExtractMetricOf(variant, soup, names)
    /\ pc' = "extract_done"
    /\ UNCHANGED <<variant, soup, names, stock_code, data, result, history, now>>
    /\ UNCHANGED <<direct_vars, log_vars>>

ExtractNext == ExtractCall

ExtractSpec == ExtractInit /\ [][ExtractNext]_vars

(***************************************************************************)
(* Direct calls of _parse_number: the cell text is drawn from a bounded    *)
(* set and one step applies the running version to it.                     *)
(***************************************************************************)
\* the glyphs of the drawn texts: digits, decorations, dashes, a blank
Glyphs == {"0", "1", "2", ",", "EN", "%", "MAN", "-", "MINUS", "EMDASH", "ENDASH",
           "HBAR", "FWHYPHEN", " "}

\* "12,345円" and "1,234"
ExampleTexts == { <<"1", "2", ",", "3", "4", "5", "EN">>, <<"1", ",", "2", "3", "4">> }

ParseTexts == SeqsUpTo(Glyphs, MaxText) \cup ExampleTexts

ParseInit ==
    /\ variant \in Variants
    /\ cell_text \in ParseTexts
    /\ number = None
    /\ pc = "parse_call"
    /\ soup = <<>> /\ names = <<>> /\ values = <<>>
    /\ stock_code = <<>> /\ data = NoData /\ result = NoResult
    /\ history = <<>> /\ now = 0
    /\ TrendIdle /\ PairIdle /\ LogIdle

\* num = self._parse_number(cell.text)
ParseCall ==
    /\ pc = "parse_call"
    /\ number' = ParseNumberOf(variant, cell_text)
    /\ pc' = "parse_done"
    /\ UNCHANGED <<variant, soup, names, values, stock_code, data, result, history, now>>
    /\ UNCHANGED <<cell_text, fn, trend_values, gapped, plain, with_gaps, data2, result2>>
    /\ UNCHANGED log_vars

ParseNext == ParseCall

ParseSpec == ParseInit /\ [][ParseNext]_vars

(***************************************************************************)
(* Direct calls of the trend predicates: a series with None entries is     *)
(* drawn, and the predicate is applied to it and to the same series        *)
(* without its None entries, in either order.                              *)
(***************************************************************************)
TrendFunctions == {"_is_increasing", "_is_non_decreasing"}

TrendInit ==
    /\ variant \in Variants
    /\ fn \in TrendFunctions
    /\ gapped \in SeqsUpTo({1, 2, 3, None}, MaxGapped)
    /\ trend_values = SelectSeq(gapped, LAMBDA v : v # None)
    /\ plain = "" /\ with_gaps = ""
    /\ pc = "trend_call"
    /\ soup = <<>> /\ names = <<>> /\ values = <<>>
    /\ stock_code = <<>> /\ data = NoData /\ result = NoResult
    /\ history = <<>> /\ now = 0
    /\ ParseIdle /\ PairIdle /\ LogIdle

\* self._is_increasing(values) / self._is_non_decreasing(values), no None among them
CallPlain ==
    /\ pc = "trend_call"
    /\ plain = ""
    /\ plain' = TrendOf(variant, fn, trend_values)
    /\ UNCHANGED <<variant, pc, soup, names, values, stock_code, data, result, history, now>>
    /\ UNCHANGED <<cell_text, number, fn, trend_values, gapped, with_gaps, data2, result2>>
    /\ UNCHANGED log_vars

\* the same call on the series with its None entries
CallGapped ==
    /\ pc = "trend_call"
    /\ with_gaps = ""
    /\ with_gaps' = TrendOf(variant, fn, gapped)
    /\ UNCHANGED <<variant, pc, soup, names, values, stock_code, data, result, history, now>>
    /\ UNCHANGED <<cell_text, number, fn, trend_values, gapped, plain, data2, result2>>
    /\ UNCHANGED log_vars

TrendNext == CallPlain \/ CallGapped

TrendSpec == TrendInit /\ [][TrendNext]_vars

(***************************************************************************)
(* Two direct calls of calculate_score, on two records that differ in one  *)
(* series at most, in either order.                                        *)
(***************************************************************************)
PairInit ==
    /\ variant \in Variants
    /\ \E base \in {PassSeries, EmptySeries}, k \in KeySet :
          \E s \in SeriesOf(variant, k) :
              /\ data = RecordOf(<<"X">>, base)
              /\ data2 = RecordOf(<<"X">>, [base EXCEPT ![k] = s])
    /\ result = NoResult /\ result2 = NoResult
    /\ pc = "pair_call"
    /\ soup = <<>> /\ names = <<>> /\ values = <<>>
    /\ stock_code = <<>> /\ history = <<>> /\ now = 0
    /\ ParseIdle /\ TrendIdle /\ LogIdle

\* score... = analyzer.calculate_score(data), the first record
ScoreFirst ==
    /\ pc = "pair_call"
    /\ result = NoResult
    /\ result' = CalculateScoreOf(variant, data)
    /\ UNCHANGED <<variant, pc, soup, names, values, stock_code, data, history, now>>
    /\ UNCHANGED <<direct_vars, log_vars>>

\* the same call for the second record
ScoreSecond ==
    /\ pc = "pair_call"
    /\ result2 = NoResult
    /\ result2' = CalculateScoreOf(variant, data2)
    /\ UNCHANGED <<variant, pc, soup, names, values, stock_code, data, result, history, now>>
    /\ UNCHANGED <<cell_text, number, fn, trend_values, gapped, plain, with_gaps, data2>>
    /\ UNCHANGED log_vars

PairNext == ScoreFirst \/ ScoreSecond

PairSpec == PairInit /\ [][PairNext]_vars

(***************************************************************************)
(* Sequential calls of save_history and of the ranking section, on a       *)
(* HISTORY_FILE that earlier runs have filled.                             *)
(***************************************************************************)
HistoryCodes == {<<"7", "2", "0", "3">>, <<"6", "7", "5", "8">>}
HistoryScores == {40, 80}

\* an entry an earlier run has stored, in an earlier month
StoredEntry(i) ==
    [stock_code |-> <<"9", "9", "8", "4">>, company_name |-> <<"X">>, score |-> 50,
     score_details |-> <<>>, date |-> i - 200]

\* a stored history of n entries
StoredLog(n) == [i \in 1..n |-> StoredEntry(i)]

\* the entries this behaviour has appended
NewEntries == SelectSeq(appended, LAMBDA e : e.date >= 0)

HistoryInit ==
    /\ variant \in Variants
    /\ history \in {StoredLog(n) : n \in {0, 99, 100}}
    /\ appended = history
    /\ ranking = <<>>
    /\ sessions = <<>>
    /\ now = 0
    /\ pc = "history_idle"
    /\ soup = <<>> /\ names = <<>> /\ values = <<>>
    /\ stock_code = <<>> /\ data = NoData /\ result = NoResult
    /\ ParseIdle /\ TrendIdle /\ PairIdle

\* save_history(stock_code, company_name, score, score_details); the clock may
\* have advanced since the call before
SaveCall ==
    /\ pc \in {"history_idle", "ranked"}
    /\ Len(NewEntries) < MaxSaves
    /\ \E code \in HistoryCodes, score \in HistoryScores, t \in {now, now + 1} :
          /\ now' = t
          /\ history' = save_history(history, code, <<"X">>, score, <<>>, t)
          /\ appended' = Append(appended,
                                [stock_code |-> code, company_name |-> <<"X">>,
                                 score |-> score, score_details |-> <<>>, date |-> t])
    /\ ranking' = <<>>
    /\ pc' = "history_idle"
    /\ UNCHANGED <<variant, soup, names, values, stock_code, data, result>>
    /\ UNCHANGED <<direct_vars, sessions>>

\* a run without an analysis: history = load_history(), then the ranking section
Rank ==
    /\ pc = "history_idle"
    /\ ranking' \in monthly_ranking(history, now)
    /\ pc' = "ranked"
    /\ UNCHANGED <<variant, soup, names, values, stock_code, data, result, history, now>>
    /\ UNCHANGED <<direct_vars, appended, sessions>>

HistoryNext == SaveCall \/ Rank

HistorySpec == HistoryInit /\ [][HistoryNext]_vars

(***************************************************************************)
(* Two sessions call save_history at the same time.  Each call loads the   *)
(* file into its own list, then appends its entry, trims and writes the    *)
(* file back; nothing orders the steps of the two calls.                   *)
(***************************************************************************)
Sessions == {1, 2}

\* the entry session p saves
EntryOf(p) ==
    [stock_code |-> sessions[p].stock_code, company_name |-> <<"X">>,
     score |-> sessions[p].score, score_details |-> <<>>, date |-> now]

ConcurrentInit ==
    /\ variant \in Variants
    /\ history \in {StoredLog(n) : n \in {0, 1, 98}}
    /\ appended = history
    /\ sessions \in [Sessions -> {[pc |-> "load", history |-> <<>>, stock_code |-> c, score |-> sc] :
                                     c \in HistoryCodes, sc \in HistoryScores}]
    /\ ranking = <<>>
    /\ now = 0
    /\ pc = "concurrent"
    /\ soup = <<>> /\ names = <<>> /\ values = <<>>
    /\ stock_code = <<>> /\ data = NoData /\ result = NoResult
    /\ ParseIdle /\ TrendIdle /\ PairIdle

\* history = load_history()
Load(p) ==
    /\ pc = "concurrent"
    /\ sessions[p].pc = "load"
    /\ sessions' = [sessions EXCEPT ![p].history = history, ![p].pc = "write"]
    /\ UNCHANGED <<variant, pc, soup, names, values, stock_code, data, result, history, now>>
    /\ UNCHANGED <<direct_vars, appended, ranking>>

\* history.append(entry); history = history[-100:]; json.dump(history, f)
Write(p) ==
    /\ pc = "concurrent"
    /\ sessions[p].pc = "write"
    /\ history' = save_history(sessions[p].history, sessions[p].stock_code, <<"X">>,
                               sessions[p].score, <<>>, now)
    /\ appended' = Append(appended, EntryOf(p))
    /\ sessions' = [sessions EXCEPT ![p].pc = "done"]
    /\ UNCHANGED <<variant, pc, soup, names, values, stock_code, data, result, now>>
    /\ UNCHANGED <<direct_vars, ranking>>

ConcurrentNext == \E p \in Sessions : Load(p) \/ Write(p)

ConcurrentSpec == ConcurrentInit /\ [][ConcurrentNext]_vars

(***************************************************************************)
(* The pages of the main flow: one table of class table_style whose rows   *)
(* are drawn from a small library, under a heading or none.                *)
(***************************************************************************)
LibraryRows ==
    { << <<"URI", "AGE", "DAKA">>, <<"1", "0", "0">>, <<"1", ",", "1", "0", "0">> >>,
      << <<"URI", "AGE", "DAKA">>, <<"-">> >>,
      << <<"E", "P", "S">>, <<"5">>, <<"4">>, <<"6">> >>,
      << <<"R", "O", "E">>, <<"7", "%">> >>,
      << <<"HAI", "TOU">>, <<"2", "0", "EN">>, <<"2", "0", "EN">> >>,
      << <<"HAI", "TOU", "SEI", "KOU">>, <<"3", "0", "%">>, <<"4", "1", "%">> >> }

Headings == {NoH1, <<"7", "2", "0", "3", " ", "T", "O", "Y", "O", "T", "A">>, <<"7", "2", "0", "3">>,
             <<" ">>}

Pages ==
    {[h1 |-> h, tables |-> <<Table("table_style", rows)>>] :
        h \in Headings, rows \in SeqsUpTo(LibraryRows, MaxRows)}

StockCodes == {<<"7", "2", "0", "3">>}

Init ==
    /\ variant \in Variants
    /\ pc = "idle"
    /\ soup = <<>> /\ names = <<>> /\ values = <<>>
    /\ stock_code = <<>>
    /\ data = NoData
    /\ result = NoResult
    /\ history = <<>>
    /\ now = 0
    /\ ParseIdle /\ TrendIdle /\ PairIdle /\ LogIdle

\* "analyze" pressed with a stock code: data = analyzer.fetch_irbank_data(stock_code);
\* the fixed version stops the run when it got None
Analyze ==
    /\ pc = "idle"
    /\ Len(history) < MaxRuns
    /\ \E code \in StockCodes, page \in Pages, ok \in BOOLEAN :
          /\ stock_code' = code
          /\ soup' = page
          /\ data' = FetchOf(variant, page, code, ok)
          /\ pc' = IF data' = NoData THEN "stopped" ELSE "fetched"
    /\ result' = NoResult
    /\ UNCHANGED <<variant, names, values, history, now>>
    /\ UNCHANGED <<direct_vars, log_vars>>

\* score, score_details(, debug_info) = analyzer.calculate_score(data)
Score ==
    /\ pc = "fetched"
    /\ result' = CalculateScoreOf(variant, data)
    /\ pc' = "scored"
    /\ UNCHANGED <<variant, soup, names, values, stock_code, data, history, now>>
    /\ UNCHANGED <<direct_vars, log_vars>>

\* save_history(stock_code, data['company_name'], score, score_details)
Save ==
    /\ pc = "scored"
    /\ result.raised = ""
    /\ history' = save_history(history, stock_code, data["company_name"],
                               result.total_score, result.score_details, now)
    /\ pc' = "saved"
    /\ UNCHANGED <<variant, soup, names, values, stock_code, data, result, now>>
    /\ UNCHANGED <<direct_vars, log_vars>>

\* the script run ends; the next run starts later
Rerun ==
    /\ pc \in {"saved", "stopped"}
    /\ pc' = "idle"
    /\ now' = now + 1
    /\ now < MaxRuns
    /\ UNCHANGED <<variant, soup, names, values, stock_code, data, result, history>>
    /\ UNCHANGED <<direct_vars, log_vars>>

Next == Analyze \/ Score \/ Save \/ Rerun

Spec == Init /\ [][Next]_vars

(***************************************************************************)
(* The predicates of the specification (4.4), written from its words over  *)
(* the present (non-None) subsequence.                                     *)
(***************************************************************************)
Present(seq) == SelectSeq(seq, LAMBDA x : x # None)

StrictlyIncreasing(seq) ==
    LET p == Present(seq)
    IN  Len(p) >= 2 /\ \A i \in 1..(Len(p) - 1) : p[i] < p[i + 1]

NonDecreasing(seq) ==
    LET p == Present(seq)
    IN  \A i \in 1..(Len(p) - 1) : p[i] <= p[i + 1]

AllPresent(seq, ok(_)) == \A i \in 1..Len(seq) : seq[i] # None => ok(seq[i])

Weight(k) == IF k \in {"revenue", "eps"} THEN 15 ELSE 10

\* calculate_score has returned a breakdown for a record
Scored == pc = "score_done" /\ result.raised = "" /\ data # NoData

(***************************************************************************)
(* C1.  For every record, the dividend criterion scores 10 exactly when    *)
(* the dividend series is non-decreasing over its present values, so 10    *)
(* for an empty series or one with fewer than 2 present values.            *)
(***************************************************************************)
C1_DividendIsNonDecreasing ==
    Scored => (result.score_details["dividend"]
                  = IF NonDecreasing(data["dividend"]) THEN 10 ELSE 0)

(***************************************************************************)
(* C2.  For every criterion other than dividend, a series with no present  *)
(* value (empty, or only None entries) scores 0.                           *)
(***************************************************************************)
C2_AbsentSeriesScoresZero ==
    Scored => \A k \in KeySet \ {"dividend"} :
                  Present(data[k]) = <<>> => result.score_details[k] = 0

(***************************************************************************)
(* C3.  revenue (15), eps (15), total_assets (10) and cash (10) score      *)
(* their full weight exactly when the present subsequence has at least 2   *)
(* values and is strictly increasing; otherwise they score 0.              *)
(***************************************************************************)
C3_TrendCriteria ==
    Scored => \A k \in {"revenue", "eps", "total_assets", "cash"} :
                  result.score_details[k]
                      = IF StrictlyIncreasing(data[k]) THEN Weight(k) ELSE 0

\* revenue rises across a None gap and scores its 15 points
C3_Witness ==
    /\ Scored
    /\ None \in {data["revenue"][i] : i \in 1..Len(data["revenue"])}
    /\ StrictlyIncreasing(data["revenue"])
    /\ result.score_details["revenue"] = 15

MeetsBound(k, x) ==
    CASE k = "roe"          -> x >= 7
      [] k = "equity_ratio" -> x >= 50
      [] k = "payout_ratio" -> x <= 40

BreakdownShape ==
    /\ DOMAIN result.score_details = KeySet
    /\ \A k \in KeySet : result.score_details[k] \in {0, Weight(k)}
    /\ result.total_score
          = result.score_details["revenue"] + result.score_details["eps"]
            + result.score_details["total_assets"]
            + result.score_details["operating_cf"] + result.score_details["cash"]
            + result.score_details["roe"] + result.score_details["equity_ratio"]
            + result.score_details["dividend"] + result.score_details["payout_ratio"]
    /\ result.total_score \in {5 * n : n \in 0..20}

(***************************************************************************)
(* C6.  The breakdown has exactly the nine keys, each value is 0 or the    *)
(* criterion's weight, and the total is their sum, a multiple of 5 in      *)
(* 0..100.  As claimed: for every input calculate_score accepts, that is,  *)
(* returns for.                                                            *)
(***************************************************************************)
C6_EveryAcceptedInput ==
    (pc = "score_done" /\ result.raised = "") => BreakdownShape

(***************************************************************************)
(* C6, amended.  The same for every record (data that is not None) that    *)
(* calculate_score accepts.                                                *)
(***************************************************************************)
C6_EveryRecord == Scored => BreakdownShape

\* one dip in eps, everything else passing: 85 points
C6_Witness ==
    /\ Scored
    /\ result.score_details["eps"] = 0
    /\ result.total_score = 85

(***************************************************************************)
(* The extraction contract of the specification (4.2), from its words.     *)
(***************************************************************************)
\* the tables the running version searches, in page order
CandidateTables == IF variant = "fixed" THEN find_tables(soup) ELSE soup.tables

\* their rows, table by table, row by row
RECURSIVE RowsOf(_)
RowsOf(tables) == IF tables = <<>> THEN <<>> ELSE Head(tables).rows \o RowsOf(Tail(tables))

\* the label cell of the row contains one of the names
Matches(row) ==
    row # <<>> /\ \E n \in 1..Len(names) :
                     contains(row[1], names[n])

\* the rows whose label matches, in search order
MatchingRows == SelectSeq(RowsOf(CandidateTables), Matches)

ParseOf(text) == IF variant = "fixed" THEN _parse_number(text) ELSE _parse_number_app(text)

\* every value cell of the row parsed, failures dropped, in column order
ParsedValues(row) ==
    SelectSeq([i \in 1..(Len(row) - 1) |-> ParseOf(row[i + 1])], LAMBDA x : x # None)

(***************************************************************************)
(* C7.  First match wins: when two rows match, the series returned is the  *)
(* one of the first matching row in search order, also when that row has   *)
(* no parseable value cell.                                                *)
(***************************************************************************)
C7_FirstMatchWins ==
    (pc = "extract_done" /\ Len(MatchingRows) >= 2) =>
        values = (IF variant = "fixed"
                  THEN latest_values(row_values(MatchingRows[1]))
                  ELSE Last(5, row_values_app(MatchingRows[1])))

(***************************************************************************)
(* C8.  When no row matches, or every value cell of the winning (first     *)
(* matching) row fails to parse, the result is the empty sequence.         *)
(***************************************************************************)
C8_EmptyWhenUnavailable ==
    (pc = "extract_done"
        /\ (MatchingRows = <<>> \/ ParsedValues(MatchingRows[1]) = <<>>)) =>
        values = <<>>

(***************************************************************************)
(* C9.  For a winning row with parseable cells, the result is the last 5   *)
(* successfully parsed values of all its cells, in column order, and never *)
(* longer than 5.                                                          *)
(***************************************************************************)
C9_LastFiveParsed ==
    (pc = "extract_done" /\ MatchingRows # <<>>
        /\ ParsedValues(MatchingRows[1]) # <<>>) =>
        /\ values = Last(5, ParsedValues(MatchingRows[1]))
        /\ Len(values) <= 5

\* every metric series of the record is empty
AllNineEmpty(d) == \A k \in KeySet : d[k] = <<>>

(***************************************************************************)
(* C10.  When all nine series come back empty, fetch_irbank_data does not  *)
(* return a record (it fails with DataUnavailable): no record with an      *)
(* empty years list reaches the caller and no score is computed for it.    *)
(***************************************************************************)
C10_DataUnavailable ==
    (pc \in {"fetched", "scored", "saved"}) =>
        ~AllNineEmpty(data)

\* fetch_irbank_data has returned a record to the main flow
Fetched == pc \in {"fetched", "scored", "saved"}

\* the length of the longest of the nine metric series of a record
LongestSeries(d) == CHOOSE n \in {Len(d[k]) : k \in KeySet} : \A k \in KeySet : Len(d[k]) <= n

(***************************************************************************)
(* C11.  In every record built by fetch_irbank_data, years is the run of   *)
(* consecutive years ending at the current year whose length is that of    *)
(* the longest of the nine metric series, so years is at least as long as  *)
(* every series.  (The sample record of a failed request is built by      *)
(* _get_dummy_data and is left aside.)                                     *)
(***************************************************************************)
C11_YearsSpanLongestSeries ==
    (Fetched /\ data # _get_dummy_data(stock_code)) =>
        LET L == LongestSeries(data) IN
        /\ Len(data["years"]) = L
        /\ \A i \in 1..L : data["years"][i] = current_year - L + i
        /\ \A k \in KeySet : Len(data["years"]) >= Len(data[k])

(***************************************************************************)
(* C12.  For every page and stock code, the company_name of the record is  *)
(* a non-empty string: without a heading, or with a heading that is empty  *)
(* after cleaning, it is the placeholder built from the stock code.        *)
(***************************************************************************)
C12_CompanyNameNonEmpty ==
    Fetched =>
        /\ data["company_name"] # <<>>
        /\ contains(data["company_name"], stock_code)
              \/ (soup.h1 # NoH1 /\ strip(soup.h1) # <<>>)

(***************************************************************************)
(* The number parser of the specification (4.3), from its words.           *)
(***************************************************************************)
\* the decorations: comma, 円, 億, 万, 百, 千, %
Decorations == {",", "EN", "OKU", "MAN", "HYAKU", "SEN", "%"}
\* the unit glyphs: the decorations but the comma
UnitGlyphs == Decorations \ {","}
\* ASCII hyphen, full-width minus (U+2212 and U+FF0D), em-dash, en-dash
DashGlyphs == {"-", "MINUS", "FWHYPHEN", "EMDASH", "ENDASH"}

\* the text with the decorations removed and whitespace trimmed
Undecorated(t) == strip(SelectSeq(t, LAMBDA c : c \notin Decorations))

\* digits with thousands separators among them, and at most one unit glyph behind
IsDecoratedDigits(t) ==
    LET b == IF t # <<>> /\ t[Len(t)] \in UnitGlyphs THEN SubSeq(t, 1, Len(t) - 1) ELSE t
    IN  /\ b # <<>>
        /\ b[1] \in DigitSet
        /\ \A i \in 1..Len(b) : b[i] \in DigitSet \cup {","}

\* the number formed by the digits alone
DigitsAlone(t) == digits_value(SelectSeq(t, LAMBDA c : c \in DigitSet))

(***************************************************************************)
(* C13.  A text that is empty or a single dash-like glyph once the         *)
(* decorations are removed and whitespace is trimmed parses to None: never *)
(* to 0, and without an exception.                                         *)
(***************************************************************************)
C13_DashesAndEmptyAreAbsent ==
    (pc = "parse_done"
        /\ (Undecorated(cell_text) = <<>>
               \/ \E d \in DashGlyphs : Undecorated(cell_text) = <<d>>)) =>
        number = None /\ number # 0

\* an en-dash (not in the code's own list of dashes) between decorations
C13_Witness ==
    /\ pc = "parse_done"
    /\ cell_text = <<",", "ENDASH", "%">>
    /\ number = None

(***************************************************************************)
(* C14.  A digit string written with thousands separators and/or one       *)
(* trailing unit glyph parses to the number its digits form, unscaled.     *)
(***************************************************************************)
C14_DigitsUnscaled ==
    (pc = "parse_done" /\ IsDecoratedDigits(cell_text)) =>
        number = DigitsAlone(cell_text)

\* "12,345円" gives 12345
C14_Witness ==
    /\ pc = "parse_done"
    /\ cell_text = <<"1", "2", ",", "3", "4", "5", "EN">>
    /\ number = 12345

\* nonDecreasing of the specification (4.4): true below 2 present values
NonDecreasingResult(seq) ==
    LET p == Present(seq)
    IN  BoolStr(Len(p) < 2 \/ \A i \in 1..(Len(p) - 1) : p[i] <= p[i + 1])

C16_AbsentEntriesSkipped ==
    (plain # "" /\ with_gaps # "") =>
        /\ with_gaps = plain
        /\ with_gaps # "TypeError"

\* both calls of calculate_score have returned a breakdown
BothScored == result.raised = "" /\ result2.raised = ""

(***************************************************************************)
(* C17.  The nine criteria do not interact: for two records that differ    *)
(* in one metric's series only, the breakdowns agree on the other eight    *)
(* criteria and the totals differ by exactly the change in that            *)
(* criterion's points.                                                     *)
(***************************************************************************)
C17_CriteriaIndependent ==
    BothScored =>
        \A k \in KeySet :
            (\A j \in KeySet \ {k} : data[j] = data2[j]) =>
                /\ \A j \in KeySet \ {k} :
                       result.score_details[j] = result2.score_details[j]
                /\ result2.total_score - result.total_score
                       = result2.score_details[k] - result.score_details[k]

\* every criterion passes (100); a dip in eps alone costs exactly 15 (85)
C17_Witness ==
    /\ BothScored
    /\ result.total_score = 100
    /\ data2["eps"] # data["eps"]
    /\ result2.score_details["eps"] = 0
    /\ result2.total_score = 85

(***************************************************************************)
(* C18.  After any sequence of sequential save_history calls the stored    *)
(* log holds at most 100 entries and equals the most recent min(n, 100)    *)
(* entries of everything ever appended, in append order: no entry is       *)
(* modified, and one is removed only as the oldest beyond the bound.       *)
(***************************************************************************)
C18_BoundedAppendOnlyLog ==
    pc \in {"history_idle", "ranked"} =>
        /\ Len(history) <= 100
        /\ Len(history) = (IF Len(appended) <= 100 THEN Len(appended) ELSE 100)
        /\ \A i \in 1..Len(history) :
               history[i] = appended[Len(appended) - Len(history) + i]

\* the bound has been exceeded: the oldest entries are gone, the newest is last
C18_Witness ==
    /\ pc = "history_idle"
    /\ Len(appended) > 101
    /\ Len(history) = 100
    /\ history[100].date >= 0
    /\ history[1] = appended[Len(appended) - 99]

\* the entries of the stored history for a stock code in the current month
EntriesThisMonth(code) ==
    SelectSeq(history, LAMBDA e : e.stock_code = code /\ month_of(e.date) = month_of(now))

(***************************************************************************)
(* C19.  In the monthly ranking, a stock code with several entries of the  *)
(* current month is shown once, with its latest entry by analysis date,    *)
(* whatever the scores are.                                                *)
(***************************************************************************)
C19_RankingShowsLatest ==
    pc = "ranked" =>
        \A code \in HistoryCodes :
            LET es == EntriesThisMonth(code)
                shown == SelectSeq(ranking, LAMBDA row : row.stock_code = code)
            IN  Len(es) >= 2 =>
                    /\ Len(shown) = 1
                    /\ \A i \in 1..Len(es) : shown[1].date >= es[i].date

(***************************************************************************)
(* C20.  When two analyses call save_history concurrently and the log held *)
(* fewer than 99 entries before, both entries are in the stored log after  *)
(* both calls have finished: no interleaving of the load and write steps   *)
(* loses an entry.                                                         *)
(***************************************************************************)
C20_NoLostEntry ==
    (pc = "concurrent" /\ \A p \in Sessions : sessions[p].pc = "done") =>
        /\ Len(history) = Len(appended)
        /\ \A p \in Sessions : \E i \in 1..Len(history) : history[i] = EntryOf(p)

\* the rows of the fetched page, table by table
PageRows == RowsOf(soup.tables)

\* a dividend row: its label is 配当 or 1株配当
IsDividendRow(row) ==
    row # <<>> /\ strip(row[1]) \in {<<"HAI", "TOU">>, <<"1", "KABU", "HAI", "TOU">>}

\* a payout-ratio row: its label is 配当性向
IsPayoutRow(row) == row # <<>> /\ strip(row[1]) = <<"HAI", "TOU", "SEI", "KOU">>

(***************************************************************************)
(* C21.  For every table that holds both a dividend row and a payout-ratio *)
(* row, in either order, the dividend series of the record is taken from   *)
(* the dividend row and never from the payout-ratio row, although the      *)
(* alias 配当 is a substring of the label 配当性向.                         *)
(***************************************************************************)
C21_DividendFromDividendRow ==
    (/\ Fetched
     /\ data # _get_dummy_data(stock_code)
     /\ \E i \in 1..Len(PageRows) : IsDividendRow(PageRows[i])
     /\ \E i \in 1..Len(PageRows) : IsPayoutRow(PageRows[i])) =>
        \E i \in 1..Len(PageRows) :
            /\ IsDividendRow(PageRows[i])
            /\ data["dividend"] = Last(5, ParsedValues(PageRows[i]))

====
